---- MODULE Spec2Model ----
(***************************************************************************)
(* socket.io-redis adapter (src/index.js): a fleet of node processes, each *)
(* with one uid, one shared subscriber connection `sub`, one publisher     *)
(* connection `pub`, one metadata connection `pubsub`, and one adapter     *)
(* facade per hosted namespace.                                            *)
(*                                                                         *)
(* The bus (redis) is modelled by what its commands do:                    *)
(*   - SUBSCRIBE / UNSUBSCRIBE issued on a node's `sub` connection are     *)
(*     processed in the order issued (subq); the reply runs the callback;  *)
(*   - PUBLISH is routed, when issued, to the inbound queue (inbox) of     *)
(*     every connection subscribed to the channel at that moment;          *)
(*   - PUBSUB NUMSUB counts the connections subscribed to a channel.       *)
(* A channel string is modelled by the pieces String.split('#') yields.    *)
(***************************************************************************)
EXTENDS Integers, Sequences, FiniteSets, TLC

\* ------------------------------------------------------------------ bounds
MaxCalls == 4   \* add/del/delAll invocations in one behaviour
MaxFail == 1    \* bus commands that fail in one behaviour
MaxBcast == 1   \* broadcast invocations (non-remote) in one behaviour
MaxQuery == 1   \* clients(rooms, fn) invocations in one behaviour
MaxLeave == 2   \* del/add invocations while the fleet broadcasts
MaxPair == 2    \* clients invocations on one node while others are outstanding

\* ------------------------------------------------------------- the fleet
Nodes == {"A", "B"}
Nsps == {"/", "/nsp"}
Rooms == {"room", "r2"}
Sids == {"s1", "s2"}

\* The facades each node constructs: A serves both namespaces, B only /nsp.
Hosted(n) == IF n = "A" THEN {"/", "/nsp"} ELSE {"/nsp"}

Facades == {f \in Nodes \X Nsps : f[2] \in Hosted(f[1])}

Absent == "absent"      \* a key that an object does not have (undefined)
NoRooms == "norooms"    \* opts.rooms undefined

\* var prefix = opts.key || 'socket.io'
Prefix == "socket.io"

\* var uid = uid2(6): one per process, distinct across the fleet
Uid(n) == n

\* var muid = uid2(6): one per query, distinct across queries
Muid(q) == <<"m1", "m2", "m3", "m4">>[q]

\* ----------------------------------------------------------- channel namer
\* prefix + '#' + nsp + '#'            split('#') -> [prefix, nsp, '']
NspChannel(ns) == <<Prefix, ns, "">>

\* prefix + '#' + nsp + '#' + room + '#'
RoomChannel(ns, room) == <<Prefix, ns, room, "">>

\* prefix + '#clientrequest'
RequestChannel == <<Prefix, "clientrequest">>

\* prefix + '#' + muid + '#clientresponse'
ResponseChannel(muid) == <<Prefix, muid, "clientresponse">>

\* pieces.slice(-1)[0]
LastPiece(chn) == chn[Len(chn)]

\* pieces.slice(-2)[0]
SecondLastPiece(chn) == chn[Len(chn) - 1]

\* ----------------------------------------------------------------- helpers
SeqToSet(s) == {s[i] : i \in 1..Len(s)}

RECURSIVE Without(_, _)
Without(s, x) ==
  IF s = <<>> THEN <<>>
  ELSE IF Head(s) = x THEN Without(Tail(s), x)
  ELSE <<Head(s)>> \o Without(Tail(s), x)

\* ------------------------------------------------------------------- state
VARIABLES
  sids,        \* sids[n][ns][sid]: Absent, or the rooms of sid in insertion order
  rooms,       \* rooms[n][ns][room]: the sids of the room; {} when rooms[room] is absent
  subscribed,  \* subscribed[n]: channels the bus holds for n's sub connection
  subq,        \* subq[n]: SUBSCRIBE/UNSUBSCRIBE commands of n awaiting their reply
  inbox,       \* inbox[n]: messages routed to n's sub connection, not yet handled
  ticks,       \* ticks[n]: process.nextTick callbacks of n not yet run
  calls,       \* every add/del/delAll invocation, with the callbacks it has made
  errs,        \* errs[n][ns]: 'error' events emitted on the facade
  bcasts,      \* every non-remote broadcast invocation
  emits,       \* emits[<<b, <<n, ns>>, sid>>]: times packet b was emitted to the client
  remotes,     \* remotes[<<b, <<n, ns>>>>]: broadcast(.., remote=true) invocations for b
  drops,       \* drops[<<b, <<n, ns>>>>]: inbound copies of b the facade ignored, by reason
  pubs,        \* every PUBLISH issued: [from, chn, msg]
  queries      \* every clients(rooms, fn) invocation without a remote channel

vars == <<sids, rooms, subscribed, subq, inbox, ticks, calls, errs,
          bcasts, emits, remotes, drops, pubs, queries>>

\* ---------------------------------------------------------- construction
\* function Redis(nsp): two SUBSCRIBEs per facade, in flight after construction
CtorCommands(n, ns) ==
  << [op |-> "SUB", chn |-> NspChannel(ns), cb |-> [k |-> "ctor", ns |-> ns]],
     [op |-> "SUB", chn |-> RequestChannel, cb |-> [k |-> "ctor", ns |-> ns]] >>

CtorQueue(n) ==
  IF n = "A" THEN CtorCommands(n, "/") \o CtorCommands(n, "/nsp")
  ELSE CtorCommands(n, "/nsp")

\* The channels the constructors of n's facades subscribe to
CtorChannels(n) == {CtorQueue(n)[i].chn : i \in 1..Len(CtorQueue(n))}

NoSids == [n \in Nodes |-> [ns \in Hosted(n) |-> [s \in Sids |-> Absent]]]
NoMembers == [n \in Nodes |-> [ns \in Hosted(n) |-> [r \in Rooms |-> {}]]]

InitWith(sd, rm, subs, cmds) ==
  /\ sids = sd
  /\ rooms = rm
  /\ subscribed = subs
  /\ subq = cmds
  /\ inbox = [n \in Nodes |-> <<>>]
  /\ ticks = [n \in Nodes |-> <<>>]
  /\ calls = <<>>
  /\ errs = [n \in Nodes |-> [ns \in Hosted(n) |-> 0]]
  /\ bcasts = <<>>
  /\ emits = [k \in (1..MaxBcast) \X Facades \X Sids |-> 0]
  /\ remotes = [k \in (1..MaxBcast) \X Facades |-> 0]
  /\ drops = [k \in (1..MaxBcast) \X Facades |-> [uid |-> 0, nsp |-> 0]]
  /\ pubs = {}
  /\ queries = <<>>

\* The fleet right after the facades are constructed: the constructors'
\* SUBSCRIBEs are in flight.
Init == InitWith(NoSids, NoMembers, [n \in Nodes |-> {}], [n \in Nodes |-> CtorQueue(n)])

\* The fleet once the bus has acknowledged the constructors' SUBSCRIBEs.
InitReady ==
  InitWith(NoSids, NoMembers, [n \in Nodes |-> CtorChannels(n)], [n \in Nodes |-> <<>>])

\* ------------------------------------------------------- membership: add
SubCmd(chn, cb) == [op |-> "SUB", chn |-> chn, cb |-> cb]
UnsubCmd(chn, cb) == [op |-> "UNSUB", chn |-> chn, cb |-> cb]

NewCall(op, n, ns, sid, room, total) ==
  [op |-> op, n |-> n, ns |-> ns, sid |-> sid, room |-> room,
   total |-> total, completed |-> 0, cbs |-> <<>>, threw |-> FALSE,
   emptied |-> {}, unsubbed |-> {}, raced |-> FALSE]

\* this.sids[id] = this.sids[id] || {}; this.sids[id][room] = true
SidsAfterAdd(entry, room) ==
  IF entry = Absent THEN <<room>>
  ELSE IF room \in SeqToSet(entry) THEN entry
  ELSE Append(entry, room)

\* (history) the delAll invocations of sid that have not called back see an
\* add or del of the same sid
NoteCall(cs, n, ns, sid) ==
  [id \in 1..Len(cs) |->
     IF cs[id].op = "delAll" /\ cs[id].n = n /\ cs[id].ns = ns /\ cs[id].sid = sid
        /\ cs[id].cbs = <<>>
       THEN [cs[id] EXCEPT !.raced = TRUE]
       ELSE cs[id]]

\* Redis.prototype.add
Add(n, ns, sid, room) ==
  /\ Len(calls) < MaxCalls
  /\ sids' = [sids EXCEPT ![n][ns][sid] = SidsAfterAdd(@, room)]
  /\ rooms' = [rooms EXCEPT ![n][ns][room] = @ \cup {sid}]
  /\ calls' = Append(NoteCall(calls, n, ns, sid), NewCall("add", n, ns, sid, room, 0))
  /\ subq' = [subq EXCEPT ![n] =
                Append(@, SubCmd(RoomChannel(ns, room),
                                 [k |-> "add", call |-> Len(calls) + 1]))]
  /\ UNCHANGED <<subscribed, inbox, ticks, errs, bcasts, emits, remotes, drops, pubs, queries>>

\* ------------------------------------------------------- membership: del
\* this.sids[id] = this.sids[id] || {}; delete this.sids[id][room]
SidsAfterDel(entry, room) ==
  IF entry = Absent THEN <<>> ELSE Without(entry, room)

\* Mutation of Del: the sid stays in rooms[room] until the room is
\* unsubscribed.
DelKeepsMember(n, ns, sid, room) ==
  LET id == Len(calls) + 1 IN
  /\ Len(calls) < MaxCalls
  /\ sids' = [sids EXCEPT ![n][ns][sid] = SidsAfterDel(@, room)]
  /\ calls' = Append(NoteCall(calls, n, ns, sid), NewCall("del", n, ns, sid, room, 0))
  /\ ticks' = [ticks EXCEPT ![n] = Append(@, [k |-> "fn", call |-> id])]
  /\ UNCHANGED <<rooms, subq, subscribed, inbox, errs, bcasts, emits, remotes, drops, pubs,
                 queries>>

\* Redis.prototype.del
Del(n, ns, sid, room) ==
  LET id == Len(calls) + 1
      left == rooms[n][ns][room] \ {sid}
  IN
  /\ Len(calls) < MaxCalls
  /\ sids' = [sids EXCEPT ![n][ns][sid] = SidsAfterDel(@, room)]
  /\ rooms' = [rooms EXCEPT ![n][ns][room] = left]
  /\ calls' = Append(NoteCall(calls, n, ns, sid), NewCall("del", n, ns, sid, room, 0))
  /\ IF left = {}
       THEN /\ subq' = [subq EXCEPT ![n] =
                          Append(@, UnsubCmd(RoomChannel(ns, room),
                                             [k |-> "del", call |-> id]))]
            /\ UNCHANGED ticks
       ELSE /\ ticks' = [ticks EXCEPT ![n] = Append(@, [k |-> "fn", call |-> id])]
            /\ UNCHANGED subq
  /\ UNCHANGED <<subscribed, inbox, errs, bcasts, emits, remotes, drops, pubs, queries>>

\* ---------------------------------------------------- membership: delAll
\* The iterator of async.forEach over Object.keys(rooms), run synchronously
\* for each key in order. st.rm is self.rooms, st.cmds the commands issued on
\* sub, st.tk the process.nextTick(next) registrations. `delete
\* self.rooms[room][id]` throws a TypeError when self.rooms[room] is
\* undefined, which ends the loop.
RECURSIVE DelAllEach(_, _, _, _, _)
DelAllEach(keys, st, ns, sid, id) ==
  IF keys = <<>> THEN st
  ELSE
    LET room == Head(keys)
        left == st.rm[room] \ {sid}
    IN
    IF st.rm[room] = {} THEN [st EXCEPT !.threw = TRUE]
    ELSE IF left = {}
      THEN DelAllEach(Tail(keys),
             [st EXCEPT !.rm[room] = {},
                        !.cmds = Append(@, UnsubCmd(RoomChannel(ns, room),
                                                    [k |-> "delAll", call |-> id]))],
             ns, sid, id)
      ELSE DelAllEach(Tail(keys),
             [st EXCEPT !.rm[room] = left,
                        !.tk = Append(@, [k |-> "next", call |-> id])],
             ns, sid, id)

\* The final callback of async.forEach without error:
\* delete self.sids[id]; if (fn) fn(null)
DelAllFinish(cs, id) == [cs EXCEPT ![id].cbs = Append(@, "null")]

\* next(): async counts the completed iterations and runs the final callback
\* when all keys are done
DelAllNextCalls(cs, id) ==
  LET c == [cs EXCEPT ![id].completed = @ + 1] IN
  IF c[id].completed >= c[id].total THEN DelAllFinish(c, id) ELSE c

DelAllNextSids(cs, sd, id) ==
  IF cs[id].completed + 1 >= cs[id].total
    THEN [sd EXCEPT ![cs[id].n][cs[id].ns][cs[id].sid] = Absent]
    ELSE sd

\* Redis.prototype.delAll
DelAll(n, ns, sid) ==
  LET id == Len(calls) + 1
      entry == sids[n][ns][sid]
  IN
  /\ Len(calls) < MaxCalls
  /\ IF entry = Absent
       THEN \* if (!rooms) return process.nextTick(fn.bind(null, null))
            /\ calls' = Append(calls, NewCall("delAll", n, ns, sid, Absent, 0))
            /\ ticks' = [ticks EXCEPT ![n] = Append(@, [k |-> "fn", call |-> id])]
            /\ UNCHANGED <<sids, rooms, subq>>
       ELSE IF entry = <<>>
       THEN \* async.forEach on no keys runs the final callback at once
            /\ calls' = DelAllFinish(Append(calls, NewCall("delAll", n, ns, sid, Absent, 0)), id)
            /\ sids' = [sids EXCEPT ![n][ns][sid] = Absent]
            /\ UNCHANGED <<rooms, subq, ticks>>
       ELSE LET st == DelAllEach(entry,
                        [rm |-> rooms[n][ns], cmds |-> <<>>, tk |-> <<>>, threw |-> FALSE],
                        ns, sid, id)
            IN
            /\ calls' = Append(calls,
                          [NewCall("delAll", n, ns, sid, Absent, Len(entry))
                             EXCEPT !.threw = st.threw,
                                    !.emptied = {st.cmds[i].chn[3] : i \in 1..Len(st.cmds)}])
            /\ rooms' = [rooms EXCEPT ![n][ns] = st.rm]
            /\ subq' = [subq EXCEPT ![n] = @ \o st.cmds]
            /\ ticks' = [ticks EXCEPT ![n] = @ \o st.tk]
            /\ UNCHANGED sids
  /\ UNCHANGED <<subscribed, inbox, errs, bcasts, emits, remotes, drops, pubs, queries>>

\* ------------------------------------------------------ process.nextTick
\* The callbacks registered with process.nextTick run before the process
\* handles any other event (a reply, a message, a timer).
Tick(n) ==
  /\ ticks[n] # <<>>
  /\ LET t == Head(ticks[n]) IN
       /\ ticks' = [ticks EXCEPT ![n] = Tail(@)]
       /\ IF t.k = "fn"
            THEN /\ calls' = [calls EXCEPT ![t.call].cbs = Append(@, "null")]
                 /\ UNCHANGED sids
            ELSE /\ calls' = DelAllNextCalls(calls, t.call)
                 /\ sids' = DelAllNextSids(calls, sids, t.call)
  /\ UNCHANGED <<rooms, subscribed, subq, inbox, errs, bcasts, emits, remotes,
                 drops, pubs, queries>>

\* ---------------------------------------------- replies on the sub connection
\* What the bus does with the command when it succeeds.
BusApply(set, cmd) ==
  IF cmd.op = "SUB" THEN set \cup {cmd.chn} ELSE set \ {cmd.chn}

\* Mutation of ReplyCalls: a failed command only emits 'error'; fn is not
\* called.
ReplyCallsSilent(cmd, err) ==
  LET cb == cmd.cb IN
  IF cb.k \in {"add", "del"} /\ ~err
    THEN [calls EXCEPT ![cb.call].cbs = Append(@, "null")]
  ELSE IF cb.k = "delAll" /\ ~err
    THEN DelAllNextCalls([calls EXCEPT ![cb.call].unsubbed = @ \cup {cmd.chn[3]}], cb.call)
  ELSE calls

\* The callbacks of sub.subscribe / sub.unsubscribe, by the place that
\* registered them; err is the reply's error.
\* (calls[id].unsubbed records the rooms whose UNSUBSCRIBE, issued by delAll
\* invocation id, the bus has acknowledged.)
ReplyCalls(cmd, err) ==
  LET cb == cmd.cb IN
  IF cb.k \in {"add", "del"}
    THEN [calls EXCEPT ![cb.call].cbs = Append(@, IF err THEN "err" ELSE "null")]
  ELSE IF cb.k = "delAll" /\ ~err
    THEN DelAllNextCalls([calls EXCEPT ![cb.call].unsubbed = @ \cup {cmd.chn[3]}], cb.call)
  ELSE calls

ReplySids(cb, err) ==
  IF cb.k = "delAll" /\ ~err THEN DelAllNextSids(calls, sids, cb.call) ELSE sids

\* The facade on which the callback emits 'error'
ReplyFacade(n, cb) ==
  IF cb.k = "ctor" THEN cb.ns
  ELSE IF cb.k = "query" THEN queries[cb.q].ns
  ELSE calls[cb.call].ns

\* 'error' events emitted so far, one per failed command
RECURSIVE SumErrs(_)
SumErrs(fs) ==
  IF fs = {} THEN 0
  ELSE LET f == CHOOSE x \in fs : TRUE IN errs[f[1]][f[2]] + SumErrs(fs \ {f})

\* The reply to the oldest command on n's sub connection; err: the command failed.
SubReply(n, err) ==
  /\ ticks[n] = <<>>
  /\ err => SumErrs(Facades) < MaxFail
  /\ subq[n] # <<>>
  /\ LET cmd == Head(subq[n]) IN
       /\ subq' = [subq EXCEPT ![n] = Tail(@)]
       /\ subscribed' = [subscribed EXCEPT ![n] = IF err THEN @ ELSE BusApply(@, cmd)]
       /\ calls' = ReplyCalls(cmd, err)
       /\ sids' = ReplySids(cmd.cb, err)
       /\ errs' = IF err THEN [errs EXCEPT ![n][ReplyFacade(n, cmd.cb)] = @ + 1] ELSE errs
  /\ UNCHANGED <<rooms, inbox, ticks, bcasts, emits, remotes, drops, pubs, queries>>

\* ------------------------------------------------ membership specification
\* The membership operations on the facade of /nsp on node A (a node's index
\* and subscriptions do not depend on its peers), with the bus free to fail
\* commands.
MemberScope ==
  {<<"A", "/nsp", "s1", "room">>, <<"A", "/nsp", "s2", "room">>, <<"A", "/nsp", "s1", "r2">>}

NextMember ==
  \/ \E c \in MemberScope : Add(c[1], c[2], c[3], c[4])
  \/ \E c \in MemberScope : Del(c[1], c[2], c[3], c[4])
  \/ \E c \in MemberScope : DelAll(c[1], c[2], c[3])
  \/ \E n \in Nodes : Tick(n)
  \/ \E n \in Nodes, err \in BOOLEAN : SubReply(n, err)

SpecMember == InitReady /\ [][NextMember]_vars

\* ------------------------------------------------------ membership claims
InRoomsMap(n, ns, s, r) == s \in rooms[n][ns][r]
InSidsMap(n, ns, s, r) == sids[n][ns][s] # Absent /\ r \in SeqToSet(sids[n][ns][s])

\* C5: in every reachable state of a facade, sid is in rooms[r] if and only
\* if r is in sids[sid].
MembershipIndexInvariant ==
  \A f \in Facades, s \in Sids, r \in Rooms :
    InRoomsMap(f[1], f[2], s, r) <=> InSidsMap(f[1], f[2], s, r)

\* A command for the channel is still in flight on n's sub connection
InFlight(n, chn) == \E i \in 1..Len(subq[n]) : subq[n][i].chn = chn

\* C6: whenever no SUBSCRIBE/UNSUBSCRIBE of the node is in flight, the node
\* is subscribed to a room channel if and only if a local sid belongs to the
\* room; and once a del callback has fired for a room that has no member
\* left, the node is not subscribed to the room's channel.
SubscriptionFollowsMembership ==
  /\ \A f \in Facades, r \in Rooms :
       subq[f[1]] = <<>> =>
         (RoomChannel(f[2], r) \in subscribed[f[1]] <=> rooms[f[1]][f[2]][r] # {})
  /\ \A id \in 1..Len(calls) :
       LET c == calls[id] IN
       (/\ c.op = "del"
        /\ c.cbs # <<>>
        /\ rooms[c.n][c.ns][c.room] = {}
        /\ ~InFlight(c.n, RoomChannel(c.ns, c.room)))
       => RoomChannel(c.ns, c.room) \notin subscribed[c.n]

\* The number PUBSUB NUMSUB reports for a channel
NumSub(chn) == Cardinality({n \in Nodes : chn \in subscribed[n]})

\* delAll invocation id calls back with null in this step
DelAllCallsBack(id) ==
  /\ id <= Len(calls')
  /\ calls'[id].op = "delAll"
  /\ calls'[id].cbs = <<"null">>
  /\ (id > Len(calls) \/ calls[id].cbs = <<>>)

\* sid is in no room, sids[sid] is removed and every room the invocation
\* emptied has had its UNSUBSCRIBE acknowledged, after this step
DelAllPost(c) ==
  /\ sids'[c.n][c.ns][c.sid] = Absent
  /\ \A r \in Rooms : c.sid \notin rooms'[c.n][c.ns][r]
  /\ c.unsubbed = c.emptied

\* C10 (postcondition): whenever delAll(sid) calls back with null, and
\* neither add(sid, .) nor del(sid, .) was invoked on the facade between the
\* delAll call and its callback, sid is in no room and sids[sid] is removed.
DelAllPostcondition ==
  \A id \in 1..MaxCalls :
    (DelAllCallsBack(id) /\ ~calls'[id].raced) => DelAllPost(calls'[id])

\* C10 (rooms with other members): a delAll invocation issues UNSUBSCRIBE for
\* exactly the rooms of sid it leaves without a member, and no other command.
DelAllUnsubscribesEmptied ==
  (Len(calls') = Len(calls) + 1 /\ calls'[Len(calls')].op = "delAll")
  => LET c == calls'[Len(calls')]
         before == sids[c.n][c.ns][c.sid]
         issued == SubSeq(subq'[c.n], Len(subq[c.n]) + 1, Len(subq'[c.n]))
     IN
     /\ \A i \in 1..Len(issued) :
          /\ issued[i].op = "UNSUB"
          /\ \E r \in c.emptied : issued[i].chn = RoomChannel(c.ns, r)
     /\ \A r \in c.emptied : rooms'[c.n][c.ns][r] = {}
     /\ (before # Absent /\ ~c.threw) =>
          \A r \in SeqToSet(before) \ c.emptied : rooms'[c.n][c.ns][r] # {}

\* C10 (fleet): once no sid is in the room on any node, every invocation has
\* called back with null and no command is in flight, no connection is
\* subscribed to the room's channel.
RoomChannelReleased ==
  \A ns \in Nsps, r \in Rooms :
    (/\ \A n \in Nodes : subq[n] = <<>> /\ ticks[n] = <<>>
     /\ \A n \in Nodes : ns \in Hosted(n) => rooms[n][ns][r] = {}
     /\ \A id \in 1..Len(calls) : calls[id].cbs = <<"null">>)
    => NumSub(RoomChannel(ns, r)) = 0

\* C10: after delAll(sid) completes successfully, sid belongs to no room,
\* sids[sid] is removed, every emptied room has been unsubscribed and rooms
\* with other members stay subscribed; once every member of a room on every
\* node has disconnected, the subscriber count of the room channel is 0.
DelAllCompletes ==
  /\ [][DelAllPostcondition /\ DelAllUnsubscribesEmptied]_vars
  /\ []RoomChannelReleased

\* ---------------------------------------------------------------- broadcast
\* The base adapter's broadcast(packet, opts): the local emit. With rooms it
\* emits once to every sid of those rooms, otherwise once to every sid of the
\* namespace; sids in opts.except are skipped.
HasRooms(opts) == opts.rooms # NoRooms /\ opts.rooms # <<>>

LocalTargets(n, ns, opts) ==
  (IF HasRooms(opts)
     THEN UNION {rooms[n][ns][r] : r \in SeqToSet(opts.rooms)}
     ELSE {s \in Sids : sids[n][ns][s] # Absent}) \ opts.except

LocalEmit(em, n, ns, b, opts) ==
  [k \in DOMAIN em |->
     IF k[1] = b /\ k[2] = <<n, ns>> /\ k[3] \in LocalTargets(n, ns, opts)
       THEN em[k] + 1 ELSE em[k]]

\* msgpack.encode([uid, packet, opts])
BroadcastMsg(n, packet, opts) == <<Uid(n), packet, opts>>

\* if (opts.rooms): an array, even an empty one, is truthy
RoomsTruthy(opts) == opts.rooms # NoRooms

\* Mutation of PublishChannels: the publish path names no channel.
NoChannels(packet, opts) == <<>>

\* The channels of the publish path of broadcast, in the order published
PublishChannels(packet, opts) ==
  IF RoomsTruthy(opts)
    THEN [i \in 1..Len(opts.rooms) |-> RoomChannel(packet.nsp, opts.rooms[i])]
    ELSE <<NspChannel(packet.nsp)>>

\* Mutation of Publishes: the remote flag is not looked at.
PublishesAlways(n, packet, opts, remote) ==
  LET chns == PublishChannels(packet, opts) IN
  [i \in 1..Len(chns) |-> [chn |-> chns[i], msg |-> BroadcastMsg(n, packet, opts)]]

\* if (!remote) { ... pub.publish(chn, msg) ... }
Publishes(n, packet, opts, remote) ==
  IF remote THEN <<>>
  ELSE LET chns == PublishChannels(packet, opts) IN
       [i \in 1..Len(chns) |-> [chn |-> chns[i], msg |-> BroadcastMsg(n, packet, opts)]]

\* The bus routes a published message to every connection subscribed to its
\* channel.
Route(inb, p) ==
  [m \in Nodes |-> IF p.chn \in subscribed[m] THEN Append(inb[m], p) ELSE inb[m]]

RECURSIVE RouteAll(_, _)
RouteAll(inb, ps) ==
  IF ps = <<>> THEN inb ELSE RouteAll(Route(inb, Head(ps)), Tail(ps))

PubLog(n, ps) == {[from |-> n, chn |-> ps[i].chn, msg |-> ps[i].msg] : i \in 1..Len(ps)}

\* The options a broadcast is invoked with
OptsChoices ==
  { [rooms |-> NoRooms, except |-> {}],
    [rooms |-> <<>>, except |-> {}],
    [rooms |-> <<"room">>, except |-> {}],
    [rooms |-> <<"room">>, except |-> {"s1"}],
    [rooms |-> <<"room", "r2">>, except |-> {}] }

\* Mutation of Broadcast: the packet is published and the local emit is left
\* for later.
BroadcastPublishFirst(n, ns, opts) ==
  LET b == Len(bcasts) + 1
      packet == [nsp |-> ns, id |-> b]
      ps == Publishes(n, packet, opts, FALSE)
  IN
  /\ Len(bcasts) < MaxBcast
  /\ inbox' = RouteAll(inbox, ps)
  /\ pubs' = pubs \cup PubLog(n, ps)
  /\ bcasts' = Append(bcasts, [n |-> n, ns |-> ns, opts |-> opts,
                               local |-> LocalTargets(n, ns, opts)])
  /\ UNCHANGED <<sids, rooms, subscribed, subq, ticks, calls, errs, emits,
                 remotes, drops, queries>>

\* Redis.prototype.broadcast invoked by the socket server (remote unset).
\* The base adapter sets packet.nsp to the facade's namespace.
Broadcast(n, ns, opts) ==
  LET b == Len(bcasts) + 1
      packet == [nsp |-> ns, id |-> b]
      ps == Publishes(n, packet, opts, FALSE)
  IN
  /\ Len(bcasts) < MaxBcast
  /\ emits' = LocalEmit(emits, n, ns, b, opts)
  /\ inbox' = RouteAll(inbox, ps)
  /\ pubs' = pubs \cup PubLog(n, ps)
  /\ bcasts' = Append(bcasts, [n |-> n, ns |-> ns, opts |-> opts,
                               local |-> LocalTargets(n, ns, opts)])
  /\ UNCHANGED <<sids, rooms, subscribed, subq, ticks, calls, errs, remotes, drops, queries>>

\* ---------------------------------------------------- onmessage: broadcasts
\* if (packet && packet.nsp === undefined) packet.nsp = '/'
PacketNsp(packet) == IF packet.nsp = Absent THEN "/" ELSE packet.nsp

\* Mutation of SameUid: no inbound message is recognised as the node's own.
NeverSameUid(n, msg) == FALSE

\* if (uid == args.shift()) return debug('ignore same uid')
SameUid(n, msg) == Uid(n) = Head(msg)

\* Mutation of DifferentNamespace: a facade takes every packet for its own.
NeverDifferentNamespace(ns, packet) == FALSE

\* if (!packet || packet.nsp != this.nsp.name) return debug('ignore different namespace')
DifferentNamespace(ns, packet) == PacketNsp(packet) # ns

\* What the else branch of onmessage does with message m on facade <<n, ns>>.
\* (A clientresponse message reaches this branch as well: its leading field is
\* a list of sids, not the uid, and args[0] is then undefined.)
BroadcastVerdict(n, ns, m) ==
  IF LastPiece(m.chn) = "clientresponse" THEN "nopacket"
  ELSE IF SameUid(n, m.msg) THEN "uid"
  ELSE IF DifferentNamespace(ns, m.msg[2]) THEN "nsp"
  ELSE "broadcast"

IsBroadcastMsg(m) == LastPiece(m.chn) \notin {"clientrequest", "clientresponse"}

\* The facades of n whose onmessage invokes this.broadcast(packet, opts, true)
Rebroadcasting(n, m) ==
  {ns \in Hosted(n) : IsBroadcastMsg(m) /\ BroadcastVerdict(n, ns, m) = "broadcast"}

OnMessageEmits(n, m) ==
  [k \in DOMAIN emits |->
     IF /\ IsBroadcastMsg(m)
        /\ k[1] = m.msg[2].id
        /\ k[2][1] = n
        /\ k[2][2] \in Rebroadcasting(n, m)
        /\ k[3] \in LocalTargets(n, k[2][2], m.msg[3])
       THEN emits[k] + 1 ELSE emits[k]]

OnMessageRemotes(n, m) ==
  [k \in DOMAIN remotes |->
     IF IsBroadcastMsg(m) /\ k[1] = m.msg[2].id /\ k[2][1] = n
        /\ k[2][2] \in Rebroadcasting(n, m)
       THEN remotes[k] + 1 ELSE remotes[k]]

OnMessageDrops(n, m) ==
  [k \in DOMAIN drops |->
     IF IsBroadcastMsg(m) /\ k[1] = m.msg[2].id /\ k[2][1] = n
       THEN LET v == BroadcastVerdict(n, k[2][2], m) IN
            IF v = "uid" THEN [drops[k] EXCEPT !.uid = @ + 1]
            ELSE IF v = "nsp" THEN [drops[k] EXCEPT !.nsp = @ + 1]
            ELSE drops[k]
       ELSE drops[k]]

\* ------------------------------------------------------------------ clients
\* A list of sids, up to order, as the number of times each sid occurs.
EmptyBag == [s \in Sids |-> 0]
BagOf(set) == [s \in Sids |-> IF s \in set THEN 1 ELSE 0]
BagSum(a, b) == [s \in Sids |-> a[s] + b[s]]

\* The base adapter's clients(rooms, cb): the local sids that are in one of
\* the rooms, or every local sid when no room is given; no sid twice.
LocalClients(n, ns, filter) ==
  IF filter = <<>>
    THEN {s \in Sids : sids[n][ns][s] # Absent}
    ELSE UNION {rooms[n][ns][r] : r \in SeqToSet(filter)}

\* The room filters a query is invoked with
FilterChoices == {<<>>, <<"room">>}

\* Redis.prototype.clients(rooms, fn) without channel: the base adapter's
\* callback runs; lerr: it reports an error.
ClientsCall(n, ns, filter, lerr) ==
  /\ queries' = Append(queries,
       [n |-> n, ns |-> ns, rooms |-> filter,
        phase |-> IF lerr THEN "done" ELSE "numsub",
        remaining |-> 0,
        acc |-> IF lerr THEN EmptyBag ELSE BagOf(LocalClients(n, ns, filter)),
        local |-> BagOf(LocalClients(n, ns, filter)),
        got |-> 0,
        cbs |-> IF lerr THEN <<[err |-> TRUE, sids |-> EmptyBag, via |-> "local"]>> ELSE <<>>])
  /\ UNCHANGED <<sids, rooms, subscribed, subq, inbox, ticks, calls, errs,
                 bcasts, emits, remotes, drops, pubs>>

Clients(n, ns, filter, lerr) ==
  /\ Len(queries) < MaxQuery
  /\ ClientsCall(n, ns, filter, lerr)

\* var packet = [self.nsp.name, uid, muid, rooms]
RequestMsg(q, id) == <<q.ns, Uid(q.n), Muid(id), q.rooms>>

\* var remaining = subs.pop() - 1
Remaining(subs) == subs - 1

\* The callback of pubsub.pubsub('NUMSUB', prefix + '#clientrequest', ...)
NumsubReply(id, err) ==
  LET q == queries[id]
      req == [chn |-> RequestChannel, msg |-> RequestMsg(q, id)]
  IN
  /\ q.phase = "numsub"
  /\ ticks[q.n] = <<>>
  /\ IF err
       THEN \* if (err) return fn && fn(err)
            /\ queries' = [queries EXCEPT ![id].phase = "done",
                             ![id].cbs = Append(@, [err |-> TRUE, sids |-> EmptyBag,
                                                    via |-> "numsub"])]
            /\ UNCHANGED <<subq, inbox, pubs>>
       ELSE /\ queries' = [queries EXCEPT ![id].phase = "armed",
                             ![id].remaining = Remaining(NumSub(RequestChannel))]
            /\ subq' = [subq EXCEPT ![q.n] =
                          Append(@, SubCmd(ResponseChannel(Muid(id)),
                                           [k |-> "query", q |-> id]))]
            /\ inbox' = Route(inbox, req)
            /\ pubs' = pubs \cup PubLog(q.n, <<req>>)
  /\ UNCHANGED <<sids, rooms, subscribed, ticks, calls, errs, bcasts, emits,
                 remotes, drops>>

\* Mutation of Finish: the callback is handed an empty list.
FinishEmpty(q, via) ==
  [q EXCEPT !.phase = "done",
            !.cbs = Append(@, [err |-> FALSE, sids |-> EmptyBag, via |-> via])]

\* function finish(): removeListener, clearTimeout, fn && fn(null, sids)
Finish(q, via) ==
  [q EXCEPT !.phase = "done",
            !.cbs = Append(@, [err |-> FALSE, sids |-> q.acc, via |-> via])]

\* The timer set by setTimeout(finish, timeout*remaining) fires.
Timeout(id) ==
  /\ queries[id].phase = "armed"
  /\ ticks[queries[id].n] = <<>>
  /\ queries' = [queries EXCEPT ![id] = Finish(@, "timeout")]
  /\ UNCHANGED <<sids, rooms, subscribed, subq, inbox, ticks, calls, errs,
                 bcasts, emits, remotes, drops, pubs>>

\* Mutation of OnClientResponse: the listener takes a response of any muid.
OnClientResponseAnyMuid(q, id, m) ==
  IF LastPiece(m.chn) # "clientresponse" THEN q
  ELSE LET r == [q EXCEPT !.acc = BagSum(@, m.msg[1]),
                          !.got = @ + 1,
                          !.remaining = @ - 1]
       IN IF r.remaining = 0 THEN Finish(r, "counter") ELSE r

\* function onclientresponsemessage(channel, message), the listener of a
\* query whose finish() has not run
OnClientResponse(q, id, m) ==
  IF LastPiece(m.chn) # "clientresponse" THEN q
  ELSE IF SecondLastPiece(m.chn) # Muid(id) THEN q
  ELSE LET r == [q EXCEPT !.acc = BagSum(@, m.msg[1]),
                          !.got = @ + 1,
                          !.remaining = @ - 1]
       IN IF r.remaining = 0 THEN Finish(r, "counter") ELSE r

\* Mutation of OnMessageQueries: finish() leaves the listener registered.
StillListening(n, m) ==
  [id \in 1..Len(queries) |->
     IF /\ queries[id].n = n
        /\ \/ queries[id].phase = "armed"
           \/ queries[id].phase = "done" /\ ~queries[id].cbs[1].err
       THEN OnClientResponse(queries[id], id, m)
       ELSE queries[id]]

OnMessageQueries(n, m) ==
  [id \in 1..Len(queries) |->
     IF queries[id].n = n /\ queries[id].phase = "armed"
       THEN OnClientResponse(queries[id], id, m)
       ELSE queries[id]]

\* onmessage, clientrequest branch: the facades of n that answer the request
Responders(n, m) ==
  IF LastPiece(m.chn) # "clientrequest" THEN {}
  ELSE {ns \in Hosted(n) : ns = m.msg[1] /\ Uid(n) # m.msg[2]}

\* this.clients(rooms, null, prefix + '#' + muid + '#clientresponse', true):
\* pub.publish(channel, msgpack.encode([sids])); nothing is published when
\* the base adapter reports an error (lerr)
ResponsePublishes(n, m, lerr) ==
  IF Responders(n, m) = {} \/ lerr THEN <<>>
  ELSE LET ns == CHOOSE x \in Responders(n, m) : TRUE IN
       <<[chn |-> ResponseChannel(m.msg[3]),
          msg |-> <<BagOf(LocalClients(n, ns, m.msg[4]))>>]>>

\* ---------------------------------------------------------------- onmessage
\* sub emits 'message': every listener of the process runs on it, the
\* onmessage of each facade and the onclientresponsemessage of each
\* outstanding query.
\* What the facades fs of n publish when their onmessage invokes
\* this.broadcast(packet, opts, true)
RECURSIVE RemotePublishes(_, _, _)
RemotePublishes(n, m, fs) ==
  IF fs = {} THEN <<>>
  ELSE LET ns == CHOOSE x \in fs : TRUE IN
       Publishes(n, m.msg[2], m.msg[3], TRUE) \o RemotePublishes(n, m, fs \ {ns})

OnMessage(n, lerr) ==
  /\ inbox[n] # <<>>
  /\ ticks[n] = <<>>
  /\ LET m == Head(inbox[n])
         ps == ResponsePublishes(n, m, lerr) \o RemotePublishes(n, m, Rebroadcasting(n, m))
     IN
     /\ lerr => Responders(n, m) # {}
     /\ emits' = OnMessageEmits(n, m)
     /\ remotes' = OnMessageRemotes(n, m)
     /\ drops' = OnMessageDrops(n, m)
     /\ queries' = OnMessageQueries(n, m)
     /\ inbox' = RouteAll([inbox EXCEPT ![n] = Tail(@)], ps)
     /\ pubs' = pubs \cup PubLog(n, ps)
  /\ UNCHANGED <<sids, rooms, subscribed, subq, ticks, calls, errs, bcasts>>

\* ------------------------------------------------- established memberships
\* The memberships a fleet may have established before a broadcast or a query
Memberships ==
  {<<"A", "/nsp", "s1", "room">>, <<"A", "/nsp", "s2", "r2">>,
   <<"A", "/", "s1", "room">>,
   <<"B", "/nsp", "s1", "room">>, <<"B", "/nsp", "s2", "room">>,
   <<"B", "/nsp", "s2", "r2">>}

\* The index after add(sid, room) of every membership of J has completed
JoinedSids(J) ==
  [n \in Nodes |-> [ns \in Hosted(n) |-> [s \in Sids |->
     LET a == IF <<n, ns, s, "room">> \in J THEN <<"room">> ELSE <<>>
         b == IF <<n, ns, s, "r2">> \in J THEN <<"r2">> ELSE <<>>
     IN IF a \o b = <<>> THEN Absent ELSE a \o b]]]

JoinedRooms(J) ==
  [n \in Nodes |-> [ns \in Hosted(n) |-> [r \in Rooms |->
     {s \in Sids : <<n, ns, s, r>> \in J}]]]

JoinedChannels(J, n) ==
  {RoomChannel(ns, r) : <<ns, r>> \in
     {x \in Hosted(n) \X Rooms : \E s \in Sids : <<n, x[1], s, x[2]>> \in J}}

\* Every constructor's and every add's SUBSCRIBE has been acknowledged.
Joined(J) ==
  InitWith(JoinedSids(J), JoinedRooms(J),
           [n \in Nodes |-> CtorChannels(n) \cup JoinedChannels(J, n)],
           [n \in Nodes |-> <<>>])

\* Node B has just been constructed and has no client yet: the bus has
\* acknowledged the first SUBSCRIBE of its constructor, the others are in
\* flight.
Joining(J) ==
  InitWith(JoinedSids(J), JoinedRooms(J),
           [n \in Nodes |-> IF n = "A" THEN CtorChannels(n) \cup JoinedChannels(J, n)
                            ELSE {Head(CtorQueue(n)).chn}],
           [n \in Nodes |-> IF n = "A" THEN <<>> ELSE Tail(CtorQueue(n))])

\* ---------------------------------------------------- broadcast specification
\* Broadcasts over established memberships and a bus that delivers.
NextBcast ==
  \/ \E f \in Facades, opts \in OptsChoices : Broadcast(f[1], f[2], opts)
  \/ \E n \in Nodes : OnMessage(n, FALSE)

InitBcast == \E J \in SUBSET Memberships : Joined(J)

SpecBcast == InitBcast /\ [][NextBcast]_vars

\* ------------------------------------------------------ clients specification
NextClients ==
  \/ \E f \in Facades, filter \in FilterChoices, lerr \in BOOLEAN :
       Clients(f[1], f[2], filter, lerr)
  \/ \E id \in 1..Len(queries), err \in BOOLEAN : NumsubReply(id, err)
  \/ \E id \in 1..Len(queries) : Timeout(id)
  \/ \E n \in Nodes, lerr \in BOOLEAN : OnMessage(n, lerr)
  \/ \E n \in Nodes, err \in BOOLEAN : SubReply(n, err)

\* The memberships the queries run over
MembersA == {<<"A", "/nsp", "s1", "room">>, <<"A", "/", "s2", "room">>}
MembersB == {<<"B", "/nsp", "s1", "room">>, <<"B", "/nsp", "s2", "r2">>}

InitClients ==
  \/ Joined(MembersA \cup MembersB)
  \/ Joining(MembersA)

SpecClients == InitClients /\ [][NextClients]_vars

\* ----------------------------------------------------------- broadcast claims
\* Broadcast b has no copy left to handle on any node.
Delivered(b) ==
  \A n \in Nodes : \A i \in 1..Len(inbox[n]) :
    IsBroadcastMsg(inbox[n][i]) => inbox[n][i].msg[2].id # b

Connected(n, ns) == {s \in Sids : sids[n][ns][s] # Absent}

\* C1 -- Echo suppression: on the node that published broadcast b, no facade
\* invokes broadcast for an inbound copy of it and none drops the copy for a
\* reason other than the uid, so each local client receives the packet exactly
\* once if the local emit targeted it and never otherwise.
EchoSuppression ==
  \A b \in 1..Len(bcasts) : \A ns \in Hosted(bcasts[b].n) :
    LET f == <<bcasts[b].n, ns>> IN
    /\ remotes[b, f] = 0
    /\ drops[b, f].nsp = 0
    /\ \A s \in Sids :
         emits[b, f, s] = IF ns = bcasts[b].ns /\ s \in bcasts[b].local THEN 1 ELSE 0

\* The publisher has handled an inbound copy of its own broadcast, which its
\* local emit had delivered to a client.
EchoSuppressionWitness ==
  \E b \in 1..Len(bcasts) :
    /\ bcasts[b].local # {}
    /\ Delivered(b)
    /\ \A ns \in Hosted(bcasts[b].n) : drops[b, <<bcasts[b].n, ns>>].uid > 0

\* The clients a broadcast to the single room r of namespace N must reach
RoomAudience(b, f) ==
  IF f[2] = bcasts[b].ns
    THEN rooms[f[1]][f[2]][bcasts[b].opts.rooms[1]] \ bcasts[b].opts.except
    ELSE {}

SingleRoom(b) == HasRooms(bcasts[b].opts) /\ Len(bcasts[b].opts.rooms) = 1

\* C2 -- A broadcast to one room r of namespace N is never emitted to a client
\* outside r, an excepted client or a client of another namespace, and once
\* every copy has been handled it has been emitted exactly once to every
\* other member of r in N on every node; the peers emit through
\* broadcast(packet, opts, true).
RoomBroadcastReachesRoom ==
  \A b \in 1..Len(bcasts) : SingleRoom(b) =>
    \A f \in Facades :
      /\ \A s \in Sids \ RoomAudience(b, f) : emits[b, f, s] = 0
      /\ \A s \in RoomAudience(b, f) : emits[b, f, s] <= 1
      /\ Delivered(b) => \A s \in RoomAudience(b, f) : emits[b, f, s] = 1
      /\ f[1] # bcasts[b].n /\ RoomAudience(b, f) # {} /\ Delivered(b)
           => remotes[b, f] = 1

\* A broadcast to "room" of /nsp published by A has reached the member on A
\* by the local emit and the member on B by the remote path, and not the
\* client of B that is in another room.
RoomBroadcastWitness ==
  \E b \in 1..Len(bcasts) :
    /\ bcasts[b].n = "A" /\ bcasts[b].ns = "/nsp"
    /\ SingleRoom(b) /\ bcasts[b].opts.rooms[1] = "room"
    /\ bcasts[b].opts.except = {}
    /\ Delivered(b)
    /\ emits[b, <<"A", "/nsp">>, "s1"] = 1
    /\ emits[b, <<"B", "/nsp">>, "s1"] = 1
    /\ remotes[b, <<"B", "/nsp">>] = 1
    /\ "s2" \in Connected("B", "/nsp") \ rooms["B"]["/nsp"]["room"]
    /\ emits[b, <<"B", "/nsp">>, "s2"] = 0

\* C3 -- Namespace isolation: a facade emits a packet to its clients, and
\* invokes broadcast for an inbound packet, only if the packet's namespace is
\* the facade's own; a broadcast to "room" of /nsp does not reach the client
\* that is in "room" of /.
NamespaceIsolation ==
  \A b \in 1..Len(bcasts) : \A f \in Facades :
    f[2] # bcasts[b].ns =>
      /\ remotes[b, f] = 0
      /\ \A s \in Sids : emits[b, f, s] = 0

\* Node A, where X is in "room" of / and Y in "room" of /nsp, received a
\* broadcast of B to "room" of /nsp: the facade of / dropped it, Y got it.
NamespaceIsolationWitness ==
  \E b \in 1..Len(bcasts) :
    /\ bcasts[b].n = "B" /\ bcasts[b].ns = "/nsp"
    /\ SingleRoom(b) /\ bcasts[b].opts.rooms[1] = "room"
    /\ "s1" \in rooms["A"]["/"]["room"]
    /\ "s1" \in rooms["A"]["/nsp"]["room"]
    /\ drops[b, <<"A", "/">>].nsp = 1
    /\ emits[b, <<"A", "/nsp">>, "s1"] = 1
    /\ emits[b, <<"A", "/">>, "s1"] = 0

\* C4 -- A broadcast whose opts.rooms is absent or an empty sequence has, once
\* every copy has been handled, been emitted to every connected client of the
\* namespace on every node, but for the excepted ones.
WholeNamespaceBroadcast ==
  \A b \in 1..Len(bcasts) :
    ~HasRooms(bcasts[b].opts) /\ Delivered(b) =>
      \A f \in Facades : f[2] = bcasts[b].ns =>
        \A s \in Connected(f[1], f[2]) \ bcasts[b].opts.except : emits[b, f, s] >= 1

\* Queries complete: the reply to NUMSUB arrives and an armed timer fires.
FairClients ==
  /\ SpecClients
  /\ WF_vars(\E id \in 1..Len(queries), err \in BOOLEAN : NumsubReply(id, err))
  /\ WF_vars(\E id \in 1..Len(queries) : Timeout(id))

\* ------------------------------------------------------------- clients claims
Invoked(id) == Len(queries) >= id
Completed(id) == Invoked(id) /\ queries[id].phase = "done"

CallbackOnce ==
  \A id \in 1..Len(queries) :
    /\ Len(queries[id].cbs) <= 1
    /\ queries[id].phase = "done" <=> Len(queries[id].cbs) = 1

CompletedIsFinal ==
  \A id \in 1..Len(queries) :
    queries[id].phase = "done" => queries'[id] = queries[id]

\* C7 -- Every invocation of clients(rooms, cb) calls cb, and calls it once:
\* cb has been called exactly when the query is complete, never twice, the
\* query does complete, and no message handled after completion changes the
\* query or what was handed to cb.
ClientsCallsBackOnce ==
  /\ []CallbackOnce
  /\ [][CompletedIsFinal]_vars
  /\ \A id \in 1..MaxQuery : Invoked(id) ~> Completed(id)

\* A query completed by its timer, with cb called once, while a response to
\* it is still to be handled by the requester.
ClientsCallsBackOnceWitness ==
  \E id \in 1..Len(queries) :
    /\ queries[id].phase = "done"
    /\ queries[id].cbs[1].via = "timeout"
    /\ \E i \in 1..Len(inbox[queries[id].n]) :
         inbox[queries[id].n][i].chn = ResponseChannel(Muid(id))

\* The PUBLISHes that answer query id
Responses(id) == {p \in pubs : p.chn = ResponseChannel(Muid(id))}

RECURSIVE SumBags(_)
SumBags(ps) ==
  IF ps = {} THEN EmptyBag
  ELSE LET p == CHOOSE x \in ps : TRUE IN BagSum(p.msg[1], SumBags(ps \ {p}))

Peers(n) == Nodes \ {n}

AggregationStep ==
  \A id \in 1..Len(queries) :
    LET q == queries[id] IN
    ( /\ q.phase = "armed"
      /\ queries'[id].phase = "done"
      /\ \A p \in Peers(q.n) : q.ns \in Hosted(p) /\ \E r \in Responses(id) : r.from = p
      /\ \A i \in 1..Len(inbox'[q.n]) : inbox'[q.n][i].chn # ResponseChannel(Muid(id)) )
    => /\ ~queries'[id].cbs[1].err
       /\ queries'[id].cbs[1].sids = BagSum(q.local, SumBags(Responses(id)))

\* C8 -- When a query completes after every peer, each hosting the namespace,
\* has published its response, and no response is left for the requester to
\* handle, cb gets (null, sids) with sids the requester's local sids and the
\* sids of every response, whatever the order of the SUBSCRIBE of the response
\* channel, the request and the responses.
ClientsAggregation == [][AggregationStep]_vars

TimeoutDelivers ==
  \A id \in 1..Len(queries) :
    LET q == queries[id] IN
    q.phase = "done" /\ q.cbs[1].via = "timeout" =>
      /\ ~q.cbs[1].err
      /\ q.cbs[1].sids = q.acc
      /\ q.got = 0 => q.cbs[1].sids = q.local

ErrorsAreLocal ==
  \A id \in 1..Len(queries) :
    (\E p \in pubs : p.chn = RequestChannel /\ p.msg[3] = Muid(id)) =>
      \A i \in 1..Len(queries[id].cbs) : ~queries[id].cbs[i].err

Armed(id) == Invoked(id) /\ queries[id].phase = "armed"

\* C9 -- A query whose request has been published completes even if a counted
\* peer stays silent: the timer fires and cb gets (null, sids) with the sids
\* collected so far, the requester's local sids alone if no response was
\* handled; cb gets no error once the request has been published.
SilentPeerTimeout ==
  /\ []TimeoutDelivers
  /\ []ErrorsAreLocal
  /\ \A id \in 1..MaxQuery : Armed(id) ~> Completed(id)

\* A query that counted a peer, heard no response and was completed by its
\* timer with the requester's local sids.
SilentPeerWitness ==
  \E id \in 1..Len(queries) :
    LET q == queries[id] IN
    /\ q.phase = "done"
    /\ q.cbs[1].via = "timeout"
    /\ q.remaining >= 1
    /\ q.got = 0
    /\ q.local # EmptyBag
    /\ q.cbs[1] = [err |-> FALSE, sids |-> q.local, via |-> "timeout"]

\* ------------------------------------------------- membership error claims
\* The reply to the oldest command of n's sub connection arrives in this step
Replied(n) == subq[n] # <<>> /\ subq'[n] = Tail(subq[n])

\* An 'error' event is emitted in this step
ErrorEmitted == errs' # errs

DelAllAtMostOnce ==
  \A id \in 1..Len(calls) : calls[id].op = "delAll" => Len(calls[id].cbs) <= 1

DelAllReportsFailure ==
  \A n \in Nodes :
    (Replied(n) /\ Head(subq[n]).cb.k = "delAll" /\ ErrorEmitted)
    => calls'[Head(subq[n]).cb.call].cbs = <<"err">>

\* C11 -- delAll(sid, cb) never invokes cb twice, and when an UNSUBSCRIBE it
\* issued fails, the step that emits 'error' on the facade also invokes cb
\* with the error.
DelAllReportsErrors ==
  /\ []DelAllAtMostOnce
  /\ [][DelAllReportsFailure]_vars

\* The command or the nextTick registration that will run the callback of
\* invocation id is still pending
CallbackPending(id) ==
  LET c == calls[id] IN
  \/ \E i \in 1..Len(subq[c.n]) : subq[c.n][i].cb = [k |-> c.op, call |-> id]
  \/ \E i \in 1..Len(ticks[c.n]) : ticks[c.n][i] = [k |-> "fn", call |-> id]

AddDelCalledOnce ==
  \A id \in 1..Len(calls) :
    calls[id].op \in {"add", "del"} =>
      /\ Len(calls[id].cbs) <= 1
      /\ calls[id].cbs = <<>> <=> CallbackPending(id)

AddDelReply ==
  \A n \in Nodes :
    (Replied(n) /\ Head(subq[n]).cb.k \in {"add", "del"}) =>
      LET id == Head(subq[n]).cb.call
          c == calls[id]
      IN IF ErrorEmitted
           THEN /\ errs' = [errs EXCEPT ![n][c.ns] = @ + 1]
                /\ calls'[id].cbs = <<"err">>
           ELSE /\ errs' = errs
                /\ calls'[id].cbs = <<"null">>

DelByTick ==
  \A id \in 1..Len(calls) :
    (calls[id].op = "del" /\ calls[id].cbs = <<>> /\ calls'[id].cbs # <<>>
       /\ ~\E n \in Nodes : Replied(n))
    => calls'[id].cbs = <<"null">> /\ ~ErrorEmitted

\* C12 -- add(sid, room, cb) and del(sid, room, cb) invoke cb exactly when
\* the reply to their command arrives (or, for a del that needs no
\* UNSUBSCRIBE, when its nextTick callback runs) and never again: with the
\* error, together with one 'error' event on the facade, when the command
\* failed, and with null otherwise.
AddDelReportErrors ==
  /\ []AddDelCalledOnce
  /\ [][AddDelReply]_vars
  /\ [][DelByTick]_vars

\* An add whose SUBSCRIBE failed has called back with the error, a del with
\* null, and the facade has emitted one 'error' event.
AddDelReportErrorsWitness ==
  \E i, j \in 1..Len(calls) :
    /\ calls[i].op = "add" /\ calls[i].cbs = <<"err">>
    /\ errs[calls[i].n][calls[i].ns] = 1
    /\ calls[j].op = "del" /\ calls[j].cbs = <<"null">>

\* ------------------------------------------------------- round trip claim
\* The invocations so far are adds of distinct memberships, then add(s, r)
\* and del(s, r) of one more; all have called back with null and nothing is
\* pending.
RoundTripDone ==
  LET k == Len(calls) IN
  /\ k >= 2
  /\ calls[k - 1].op = "add" /\ calls[k].op = "del"
  /\ calls[k].sid = calls[k - 1].sid /\ calls[k].room = calls[k - 1].room
  /\ calls[k].n = calls[k - 1].n /\ calls[k].ns = calls[k - 1].ns
  /\ \A i \in 1..k : calls[i].cbs = <<"null">>
  /\ \A i \in 1..(k - 2) :
       /\ calls[i].op = "add"
       /\ <<calls[i].sid, calls[i].room>> # <<calls[k].sid, calls[k].room>>
  /\ \A n \in Nodes : subq[n] = <<>> /\ ticks[n] = <<>>

\* The memberships established before the add of the round trip
Before == {<<calls[i].n, calls[i].ns, calls[i].sid, calls[i].room>> : i \in 1..(Len(calls) - 2)}

SameEntry(a, b) ==
  IF b = Absent THEN a = Absent
  ELSE a # Absent /\ SeqToSet(a) = SeqToSet(b)

\* C13 -- add(s, r) followed by del(s, r), s not in r beforehand and both
\* called back with null, leaves the sids map, the rooms map and the node's
\* subscriptions as they were before the add.
AddDelRoundTrip ==
  RoundTripDone =>
    /\ rooms = JoinedRooms(Before)
    /\ subscribed = [n \in Nodes |-> CtorChannels(n) \cup JoinedChannels(Before, n)]
    /\ \A f \in Facades, x \in Sids :
         SameEntry(sids[f[1]][f[2]][x], JoinedSids(Before)[f[1]][f[2]][x])

\* ------------------------------------------------------ leave specification
\* Clients of node A leave and rejoin "room" of /nsp while the fleet
\* broadcasts.
LeaveScope == {<<"A", "/nsp", "s1", "room">>, <<"A", "/nsp", "s2", "room">>}

\* The broadcasts to one room of /nsp
LeaveFacades == {f \in Facades : f[2] = "/nsp"}
LeaveOpts == {opts \in OptsChoices : HasRooms(opts) /\ Len(opts.rooms) = 1 /\ opts.except = {}}

InitLeave ==
  \E J \in SUBSET {<<"A", "/nsp", "s2", "room">>} :
    Joined({<<"A", "/nsp", "s1", "room">>, <<"B", "/nsp", "s1", "room">>} \cup J)

NextLeave ==
  \/ \E c \in LeaveScope : Len(calls) < MaxLeave /\ Del(c[1], c[2], c[3], c[4])
  \/ \E c \in LeaveScope : Len(calls) < MaxLeave /\ Add(c[1], c[2], c[3], c[4])
  \/ \E n \in Nodes : Tick(n)
  \/ \E n \in Nodes, err \in BOOLEAN : SubReply(n, err)
  \/ \E f \in LeaveFacades, opts \in LeaveOpts : Broadcast(f[1], f[2], opts)
  \/ \E n \in Nodes : OnMessage(n, FALSE)

SpecLeave == InitLeave /\ [][NextLeave]_vars

\* ------------------------------------------------------------- leave claim
IsCall(c, op, n, ns, s, r) ==
  c.op = op /\ c.n = n /\ c.ns = ns /\ c.sid = s /\ c.room = r

\* del(s, r) has called back on the facade and add(s, r) has not been invoked
\* since
LeftRoom(n, ns, s, r) ==
  \E i \in 1..Len(calls) :
    /\ IsCall(calls[i], "del", n, ns, s, r)
    /\ calls[i].cbs # <<>>
    /\ \A j \in (i + 1)..Len(calls) : ~IsCall(calls[j], "add", n, ns, s, r)

\* C14 -- A broadcast to rooms is emitted to a client only if one of the
\* rooms is a room the client has not left: once del(sid, room) has called
\* back, no facade of any node emits a broadcast to that room to the client
\* (until the client joins the room again).
NoEmitAfterLeave ==
  [][\A b \in 1..Len(bcasts') : \A f \in Facades : \A s \in Sids :
       (emits'[b, f, s] > emits[b, f, s] /\ HasRooms(bcasts'[b].opts))
       => \E r \in SeqToSet(bcasts'[b].opts.rooms) : ~LeftRoom(f[1], f[2], s, r)]_vars

\* s1 has left "room" on node A, s2 has joined it afterwards, and a broadcast
\* of node B to "room" has reached s2 and not s1.
NoEmitAfterLeaveWitness ==
  \E b \in 1..Len(bcasts) : \E i, j \in 1..Len(calls) :
    /\ i < j
    /\ IsCall(calls[i], "del", "A", "/nsp", "s1", "room") /\ calls[i].cbs # <<>>
    /\ IsCall(calls[j], "add", "A", "/nsp", "s2", "room")
    /\ LeftRoom("A", "/nsp", "s1", "room")
    /\ bcasts[b].n = "B" /\ SingleRoom(b) /\ bcasts[b].opts.rooms[1] = "room"
    /\ Delivered(b)
    /\ emits[b, <<"A", "/nsp">>, "s2"] = 1
    /\ emits[b, <<"A", "/nsp">>, "s1"] = 0

\* --------------------------------------------------------- publish claims
\* The PUBLISHes of broadcast b
BroadcastPubs(b) == {p \in pubs : IsBroadcastMsg(p) /\ p.msg[2].id = b}

OriginOnly ==
  \A p \in pubs : IsBroadcastMsg(p) =>
    /\ p.msg[2].id \in 1..Len(bcasts)
    /\ p.from = bcasts[p.msg[2].id].n
    /\ p.msg[1] = Uid(p.from)

\* A step in which a facade handles an inbound broadcast message
HandlesBroadcast == remotes' # remotes \/ drops' # drops

RemoteSilent ==
  HandlesBroadcast =>
    /\ pubs' = pubs
    /\ \A n \in Nodes : Len(inbox'[n]) <= Len(inbox[n])

\* C15 -- No re-publish: a step in which a facade handles an inbound
\* broadcast message, by broadcast(packet, opts, true) or by dropping it,
\* publishes nothing and puts no message on the bus; every message of a
\* broadcast on the bus was published by the node that originated it, with
\* that node's uid.
NoRepublish ==
  /\ []OriginOnly
  /\ [][RemoteSilent]_vars

\* A peer has emitted a broadcast through broadcast(packet, opts, true) and
\* the only PUBLISH of the broadcast is the originating node's.
NoRepublishWitness ==
  \E b \in 1..Len(bcasts) :
    /\ Delivered(b)
    /\ \E f \in Facades : f[1] # bcasts[b].n /\ remotes[b, f] = 1
    /\ Cardinality(BroadcastPubs(b)) = 1
    /\ \A p \in BroadcastPubs(b) : p.from = bcasts[b].n

\* The channels a broadcast of namespace ns with options opts is to be
\* published on
RoutingChannels(ns, opts) ==
  IF HasRooms(opts) THEN {RoomChannel(ns, r) : r \in SeqToSet(opts.rooms)}
  ELSE {NspChannel(ns)}

\* C16 -- Publish routing: a broadcast (remote unset) has published the
\* message [uid, packet, opts] once on the channel of each room of opts.rooms
\* when opts.rooms is non-empty, once on the namespace channel when opts.rooms
\* is empty or absent, and on no other channel.
PublishRouting ==
  \A b \in 1..Len(bcasts) :
    BroadcastPubs(b) =
      {[from |-> bcasts[b].n, chn |-> c,
        msg |-> <<Uid(bcasts[b].n), [nsp |-> bcasts[b].ns, id |-> b], bcasts[b].opts>>] :
         c \in RoutingChannels(bcasts[b].ns, bcasts[b].opts)}

\* ---------------------------------------------------------------------------
\* Response channel claims
\* ---------------------------------------------------------------------------

\* Nothing that node n sent to Redis on its subscriber connection is unanswered
Settled(n) == subq[n] = <<>>

ResponseChannelReleased ==
  \A id \in 1..Len(queries) :
    queries[id].phase = "done" /\ Settled(queries[id].n) =>
      ResponseChannel(Muid(id)) \notin subscribed[queries[id].n]

TimerCancelled ==
  \A id \in 1..Len(queries) :
    queries[id].phase = "done" => ~ENABLED Timeout(id)

\* C17 -- Once a clients query has completed, by its counter reaching zero or
\* by its timer, and the node's subscriber commands have been answered, the
\* node is not subscribed to the query's response channel, and the query's
\* timer cannot fire any more.
ResponseChannelScoped == ResponseChannelReleased /\ TimerCancelled

\* ---------------------------------------------------------------------------
\* Responder claims
\* ---------------------------------------------------------------------------

\* Node n handles in this step the clients request at the head of its inbox
HandlesRequest(n) ==
  /\ inbox[n] # <<>>
  /\ LastPiece(Head(inbox[n]).chn) = "clientrequest"
  /\ inbox'[n] = Tail(inbox[n])

\* The responses to the request m that node n publishes in this step
NewResponses(n, m) ==
  {p \in pubs' \ pubs : p.from = n /\ p.chn = ResponseChannel(m.msg[3])}

\* The number of messages this step appends to the inbox of a node subscribed
\* to the response channel of m, other than the handler n itself
Arrivals(n, m) ==
  {Len(inbox'[r]) - Len(inbox[r]) :
     r \in {x \in Nodes \ {n} : ResponseChannel(m.msg[3]) \in subscribed[x]}}

Accepts(n, m) == m.msg[1] \in Hosted(n) /\ m.msg[2] # Uid(n)

RespondsOnce ==
  \A n \in Nodes :
    HandlesRequest(n) =>
      LET m == Head(inbox[n]) IN
      IF Accepts(n, m)
        THEN /\ Cardinality(NewResponses(n, m)) = 1
             /\ Arrivals(n, m) \subseteq {1}
             /\ \A p \in NewResponses(n, m) :
                  p.msg = <<BagOf(LocalClients(n, m.msg[1], m.msg[4]))>>
        ELSE /\ NewResponses(n, m) = {}
             /\ Arrivals(n, m) \subseteq {0}

\* C18 -- A node that handles a clients request publishes exactly one
\* response [sids] on the response channel of the request's muid if it hosts
\* the requested namespace and the request's uid is not its own, and no
\* response otherwise, however many of its facades see the request.
ResponderRespondsOnce == [][RespondsOnce]_vars

\* ---------------------------------------------------------------------------
\* Ordering claims
\* ---------------------------------------------------------------------------

\* The publisher of broadcast b has emitted it to each of its local targets
LocallyEmitted(b) ==
  \A s \in bcasts[b].local : emits[b, <<bcasts[b].n, bcasts[b].ns>>, s] >= 1

\* Broadcast b is on the bus or has been handled by a peer
Issued(b) ==
  \/ BroadcastPubs(b) # {}
  \/ \E n \in Nodes : \E i \in 1..Len(inbox[n]) :
       IsBroadcastMsg(inbox[n][i]) /\ inbox[n][i].msg[2].id = b
  \/ \E f \in Facades : remotes[b, f] > 0

LocalEmitBeforePublish ==
  \A b \in 1..Len(bcasts) : Issued(b) => LocallyEmitted(b)

\* A peer's emit of broadcast b finds the publisher's local emit done
PeerEmitsAfterPublisher ==
  \A b \in 1..Len(bcasts') : \A f \in Facades : \A s \in Sids :
    f[1] # bcasts'[b].n /\ emits'[b, f, s] > emits[b, f, s] =>
      b <= Len(bcasts) /\ LocallyEmitted(b)

\* C19 -- When a publish of a broadcast has been issued, the local emit of
\* the publishing node is complete, and no peer emits the packet before the
\* publisher has emitted it to its own clients.
LocalEmitFirst == []LocalEmitBeforePublish /\ [][PeerEmitsAfterPublisher]_vars

\* A peer has emitted a broadcast that the publisher emitted to a local client
LocalEmitFirstWitness ==
  \E b \in 1..Len(bcasts) : \E f \in Facades : \E s \in Sids :
    /\ bcasts[b].local # {}
    /\ f[1] # bcasts[b].n
    /\ remotes[b, f] > 0
    /\ emits[b, f, s] > 0

\* ---------------------------------------------------------------------------
\* Duplicate delivery claims
\* ---------------------------------------------------------------------------

\* The rooms of broadcast b that client s of facade f belongs to
RoomsOfIn(b, f, s) ==
  {r \in SeqToSet(bcasts[b].opts.rooms) : s \in rooms[f[1]][f[2]][r]}

\* C20 -- On a receiving node a broadcast to the rooms R is emitted more than
\* once to a local client only if the client belongs to more than one room of
\* R, and once every copy has been handled a client that belongs to exactly
\* one room of R has received it exactly once.
DuplicatesOnlyMultiRoom ==
  \A b \in 1..Len(bcasts) : HasRooms(bcasts[b].opts) =>
    \A f \in Facades : \A s \in Sids \ bcasts[b].opts.except :
      f[1] # bcasts[b].n /\ f[2] = bcasts[b].ns =>
        /\ emits[b, f, s] > 1 => Cardinality(RoomsOfIn(b, f, s)) > 1
        /\ Delivered(b) /\ Cardinality(RoomsOfIn(b, f, s)) = 1 => emits[b, f, s] = 1

\* ---------------------------------------------------------------------------
\* Concurrent queries
\* ---------------------------------------------------------------------------

\* The facades the concurrent queries are invoked on: both namespaces of
\* node A
PairFacades == {f \in Facades : f[1] = "A"}

\* clients([], fn) invoked on node A while earlier queries of A may still be
\* outstanding; the peers answer, the timers fire.
NextPair ==
  \/ \E f \in PairFacades :
       Len(queries) < MaxPair /\ ClientsCall(f[1], f[2], <<>>, FALSE)
  \/ \E id \in 1..Len(queries) : NumsubReply(id, FALSE)
  \/ \E id \in 1..Len(queries) : Timeout(id)
  \/ \E n \in Nodes : OnMessage(n, FALSE)
  \/ \E n \in Nodes : SubReply(n, FALSE)

InitPair == Joined(MembersA \cup MembersB)

SpecPair == InitPair /\ [][NextPair]_vars

\* Queries i and j are two invocations on the same node
Concurrent(i, j) == i # j /\ queries[i].n = queries[j].n

\* Node n handles in this step a response published for the muid of query i
HandlesResponseFor(n, i) ==
  /\ inbox[n] # <<>>
  /\ inbox'[n] = Tail(inbox[n])
  /\ Head(inbox[n]).chn = ResponseChannel(Muid(i))

ResponseIsolation ==
  \A i \in 1..Len(queries) : \A j \in 1..Len(queries) :
    Concurrent(i, j) /\ HandlesResponseFor(queries[i].n, i) =>
      /\ queries'[j].acc = queries[j].acc
      /\ queries'[j].remaining = queries[j].remaining
      /\ queries'[j].got = queries[j].got

CompletionIsolation ==
  \A i \in 1..Len(queries) : \A j \in 1..Len(queries) :
    (/\ Concurrent(i, j)
     /\ queries[i].phase # "done"
     /\ queries'[i].phase = "done") => queries'[j] = queries[j]

\* C21 -- With two or more queries outstanding on one node, a response
\* published for one query's muid changes neither the accumulated sids nor
\* the counter of another query, and the step that completes one query leaves
\* every other query as it was.
ConcurrentQueriesIsolated ==
  [][ResponseIsolation /\ CompletionIsolation]_vars

\* A query of node A has taken a response and completed while another query
\* of A, armed with its own counter, is still outstanding
ConcurrentQueriesWitness ==
  \E i \in 1..Len(queries) : \E j \in 1..Len(queries) :
    /\ Concurrent(i, j)
    /\ queries[i].got >= 1
    /\ queries[i].phase = "done"
    /\ queries[j].phase = "armed"
    /\ queries[j].got = 0
    /\ ResponseChannel(Muid(j)) \in subscribed[queries[j].n]

\* ---------------------------------------------------------------------------
\* Re-entrant delAll
\* ---------------------------------------------------------------------------

\* This step invokes delAll(sid) on a facade where an earlier delAll(sid) has
\* not called back with null: it waits for its UNSUBSCRIBEs or its nextTicks,
\* or an UNSUBSCRIBE of it has failed
ReentrantDelAll ==
  /\ Len(calls') = Len(calls) + 1
  /\ calls'[Len(calls')].op = "delAll"
  /\ \E j \in 1..Len(calls) :
       /\ calls[j].op = "delAll"
       /\ calls[j].n = calls'[Len(calls')].n
       /\ calls[j].ns = calls'[Len(calls')].ns
       /\ calls[j].sid = calls'[Len(calls')].sid
       /\ calls[j].cbs # <<"null">>

\* The memberships of the sids other than c.sid are the same after the step
OthersKept(c) ==
  \A s \in Sids \ {c.sid} :
    /\ sids'[c.n][c.ns][s] = sids[c.n][c.ns][s]
    /\ \A r \in Rooms : s \in rooms'[c.n][c.ns][r] <=> s \in rooms[c.n][c.ns][r]

\* The invocation has called back or something that will run its callback is
\* pending after the step
WillCallBack(id) ==
  LET c == calls'[id] IN
  \/ c.cbs # <<>>
  \/ \E i \in 1..Len(subq'[c.n]) : subq'[c.n][i].cb = [k |-> "delAll", call |-> id]
  \/ \E i \in 1..Len(ticks'[c.n]) : ticks'[c.n][i].call = id

ReentrantSafe ==
  ReentrantDelAll =>
    /\ ~calls'[Len(calls')].threw
    /\ WillCallBack(Len(calls'))
    /\ OthersKept(calls'[Len(calls')])

\* C22 -- delAll(sid) invoked while an earlier delAll(sid) waits for its
\* unsubscribe completions, or after an earlier delAll(sid) hit a bus error,
\* raises no exception, has called back or has its callback pending, and
\* leaves the memberships of every other sid unchanged.
DelAllReentrant == [][ReentrantSafe]_vars

====
